---- MODULE Spec2Model ----
(***************************************************************************)
(* Model of torchmdexp.weighted_ensembles.WeightedEnsemble: the training   *)
(* estimator's gradient computation, gradient application and dynamic      *)
(* gradient clipping, as a state machine over one estimator instance.      *)
(*                                                                         *)
(* Numbers.  A parameter is modelled as a one-element tensor, so that its  *)
(* gradient is an integer and its 2-norm is the absolute value.  Floating  *)
(* point is modelled by integer arithmetic: square roots and quotients are *)
(* rounded down, and the 1e-6 that clip_grad_norm_ adds to the norm in its *)
(* scaling coefficient is dropped.  Scalars that stay exact (the weighted  *)
(* observable, the loss) are rationals [num, den].                         *)
(*                                                                         *)
(* An optional value (a gradient slot that may be None) is a sequence of   *)
(* length 0 or 1.                                                          *)
(***************************************************************************)
EXTENDS Integers, Sequences, FiniteSets, TLC

\* ---------------------------------------------------------------- bounds
NParams  == 2      \* parameters of the potential, all tracked by the optimizer
MaxCalls == 2      \* apply_gradients calls explored
MaxLen   == 2      \* capacity of the gradient-norm history
NStates  == 2      \* states in a batch handed to compute_gradients
MaxStates == 4     \* largest batch handed to _weights and compute_we
MaxReplicas == 2   \* largest `replicas` an estimator is constructed with

\* ------------------------------------------------------- program constants
SEED      == 3000      \* self.gradnorm_queue.add(3000)
OBS_CLAMP == 10000000  \* 10e6, upper bound of a per-state metric value
T_DEFAULT == 350       \* T = 350, the constructor's default temperature
BOLTZMAN_INV == 503    \* 1 / BOLTZMAN = 1 / 0.001987191, rounded down

\* --------------------------------------------------------- optional values
NoneV    == <<>>
Some(x)  == <<x>>
IsNone(s) == Len(s) = 0
Get(s)   == s[1]

Params == 1..NParams

Abs(x) == IF x < 0 THEN -x ELSE x
Sgn(x) == IF x < 0 THEN -1 ELSE IF x > 0 THEN 1 ELSE 0

RECURSIVE SqrtIter(_, _, _)
\* largest r in lo..hi-1 with r*r <= n, by bisection
SqrtIter(n, lo, hi) ==
    IF hi - lo <= 1 THEN lo
    ELSE LET mid == (lo + hi) \div 2
         IN  IF mid * mid <= n THEN SqrtIter(n, mid, hi)
                               ELSE SqrtIter(n, lo, mid)

Isqrt(n) == SqrtIter(n, 0, (IF n < 46340 THEN n ELSE 46340) + 1)

RECURSIVE SeqSum(_)
SeqSum(s) == IF s = <<>> THEN 0 ELSE Head(s) + SeqSum(Tail(s))

SeqSumSq(s) == SeqSum([i \in 1..Len(s) |-> s[i] * s[i]])

\* ------------------------------------------ clip_grad (gradient-norm tracker)
\* Queue.add: append; at full capacity the oldest entry is evicted (FIFO)
QueueAdd(q, x) ==
    IF Len(q) >= MaxLen THEN Append(Tail(q), x) ELSE Append(q, x)

\* Queue.mean()
QueueMean(q) == SeqSum(q) \div Len(q)

\* Queue.std(): population standard deviation
QueueStd(q) ==
    Isqrt((Len(q) * SeqSumSq(q) - SeqSum(q) * SeqSum(q)) \div (Len(q) * Len(q)))

\* get_grad_norm(params): 2-norm over all parameters that have a gradient
get_grad_norm(g) ==
    Isqrt(SeqSum([k \in Params |-> IF IsNone(g[k]) THEN 0 ELSE Get(g[k]) * Get(g[k])]))

\* ------------------------------------------------------------ clip_gradients
\* dynamic_max_grad_norm = 1.5 * mean + 2 * std
dynamic_max_grad_norm(q) ==
    (3 * QueueMean(q)) \div 2 + 2 * QueueStd(q)

\* torch.nn.utils.clip_grad_norm_(p, max_norm) on ONE parameter p:
\* coefficient max_norm / norm(p), clamped to 1, multiplied onto p.grad
clip_grad_norm_(slot, max_norm) ==
    IF IsNone(slot) THEN slot
    ELSE IF Abs(Get(slot)) > max_norm THEN Some(Sgn(Get(slot)) * max_norm)
    ELSE slot

\* variant: one clip over all parameters, every gradient scaled by
\* T / total norm when the total norm exceeds T
ClipParams_global(g, T) ==
    LET total == get_grad_norm(g)
    IN  [k \in Params |->
            IF IsNone(g[k]) \/ total <= T THEN g[k]
            ELSE Some(Sgn(Get(g[k])) * ((Abs(Get(g[k])) * T) \div total))]

\* for p in params: if p.grad is not None: clip_grad_norm_(p, max_norm=T)
ClipParams(g, T) == [k \in Params |-> clip_grad_norm_(g[k], T)]

\* variant: the raw norm is recorded even when the gradient was clipped
QueueEntry_raw(grad_norm, T) == grad_norm

\* the value added to the history: the threshold if the pre-clip norm
\* exceeds it, the raw norm otherwise
QueueEntry(grad_norm, T) == IF grad_norm > T THEN T ELSE grad_norm

\* ------------------------------------------------- estimator pure functions
REPLICAS == 1          \* replicas = 1, the constructor's default

\* variant: the second result is not a copy of the energies but zeros
extEpot_hat_zero(U) ==
    LET batch_num == Len(U) \div REPLICAS
        ext      == SubSeq(U, 1, batch_num * REPLICAS)
    IN  [U_ext |-> ext, U_ext_hat |-> [i \in 1..Len(ext) |-> 0]]

\* _extEpot: the potential's energy of each state, evaluated in `replicas`
\* contiguous sub-batches of batch_num states and concatenated; the second
\* result is the detached copy (same values, no gradient)
extEpot(U) ==
    LET batch_num == Len(U) \div REPLICAS
        ext      == SubSeq(U, 1, batch_num * REPLICAS)
    IN  [U_ext |-> ext, U_ext_hat |-> ext]

\* torch.exp, rounded down to an integer: 1 at 0, 0 below 0 (the estimator
\* produces no positive argument)
Exp(x) == CASE x = 0 -> 1
            [] x < 0 -> 0

\* U_arg = -(U_ext - U_ext_hat) / (T * BOLTZMAN), rounded to an integer
U_arg(U, T) ==
    LET e == extEpot(U)
    IN  [i \in 1..Len(e.U_ext) |->
            -(((e.U_ext[i] - e.U_ext_hat[i]) * BOLTZMAN_INV) \div T)]

\* variant: the energies themselves are weighted, not their difference from
\* the detached copy
exponentials_undetached(U, T) ==
    LET e == extEpot(U)
    IN  [i \in 1..Len(e.U_ext) |-> Exp(-((e.U_ext[i] * BOLTZMAN_INV) \div T))]

\* exponentials = torch.exp(U_arg)
exponentials(U, T) ==
    LET a == U_arg(U, T)
    IN  [i \in 1..Len(a) |-> Exp(a[i])]

\* the exponentials of an estimator constructed with the default temperature
weights_exponentials(U) == exponentials(U, T_DEFAULT)

\* variant: the exponentials are returned without dividing by their sum
weights_unnormalised(U, T) ==
    LET ex == exponentials(U, T)
    IN  [i \in 1..Len(ex) |-> [num |-> ex[i], den |-> 1]]

\* _weights: weights[i] is the rational exponentials[i] / sum(exponentials);
\* a denominator 0 stands for the nan of a division 0 / 0
weights(U, T) ==
    LET ex == exponentials(U, T)
    IN  [i \in 1..Len(ex) |-> [num |-> ex[i], den |-> SeqSum(ex)]]

RECURSIVE Pow(_, _)
Pow(b, k) == IF k = 0 THEN 1 ELSE b * Pow(b, k - 1)

RECURSIVE SeqProd(_)
SeqProd(s) == IF s = <<>> THEN 1 ELSE Head(s) * SeqProd(Tail(s))

\* the nan of torch: 0 * log(0), or a weight that is itself nan
NaN == [pow |-> 0, num |-> 0, den |-> 0]

\* _effectiven: neff = exp(-sum(w * log w)).  With weights num[i] / d this is
\* the d-th root of  d^(sum num) / prod(num[i]^num[i]),  kept exactly as
\* [pow |-> d, num, den]: neff^pow = num / den.  A zero weight gives nan.
effectiven(w) ==
    IF w = <<>> THEN [pow |-> 1, num |-> 1, den |-> 1]
    ELSE IF \E i \in 1..Len(w) : w[i].num <= 0 \/ w[i].den <= 0 THEN NaN
    ELSE LET d == w[1].den
             n == [i \in 1..Len(w) |-> w[i].num]
         IN  [pow |-> d, num |-> Pow(d, SeqSum(n)),
              den |-> SeqProd([i \in 1..Len(n) |-> Pow(n[i], n[i])])]

\* variant: the metric values are weighted as they are, without the clamp
compute_we_unclamped(U, metric) ==
    LET ex  == weights_exponentials(U)
    IN  [w_ensemble |-> [num |-> SeqSum([i \in 1..Len(ex) |-> ex[i] * metric[i]]),
                         den |-> SeqSum(ex)],
         avg_metric |-> [num |-> SeqSum(metric), den |-> Len(metric)]]

\* variant: the clamped metric values are summed without the weights
compute_we_unweighted(U, metric) ==
    LET obs == [i \in 1..Len(metric) |->
                   IF metric[i] > OBS_CLAMP THEN OBS_CLAMP ELSE metric[i]]
    IN  [w_ensemble |-> [num |-> SeqSum(obs), den |-> 1],
         avg_metric |-> [num |-> SeqSum(obs), den |-> Len(obs)]]

\* compute_we: clamp the metric values, weight them, and average them
compute_we(U, metric) ==
    LET ex  == weights_exponentials(U)
        obs == [i \in 1..Len(metric) |->
                   IF metric[i] > OBS_CLAMP THEN OBS_CLAMP ELSE metric[i]]
    IN  [w_ensemble |-> [num |-> SeqSum([i \in 1..Len(ex) |-> ex[i] * obs[i]]),
                         den |-> SeqSum(ex)],
         avg_metric |-> [num |-> SeqSum(obs), den |-> Len(obs)]]

\* variant: below the threshold on neff no weighted observable is formed
compute_we_neff_filtered(U, metric, neff_threshold) ==
    LET r == compute_we(U, metric)
    IN  IF ~IsNone(neff_threshold) /\ Len(U) < Get(neff_threshold)
        THEN [r EXCEPT !.w_ensemble = [num |-> 0, den |-> 1]]
        ELSE r

\* compute_we(states, crystal, embeddings, neff_threshold=None): the body
\* never reads neff_threshold
compute_we_neff(U, metric, neff_threshold) == compute_we(U, metric)

\* the externally supplied loss transforms explored
LossFns == {"zero", "hinge"}

loss_fn(f, w) ==
    CASE f = "zero"  -> [num |-> 0, den |-> 1]
      [] f = "hinge" -> [num |-> IF w.num > w.den THEN w.num - w.den ELSE 0,
                         den |-> w.den]

\* variant: the diagnostics keep the un-prefixed names whatever val is
compute_loss_unprefixed(f, U, metric, val_is_false) ==
    LET we == compute_we(U, metric)
        l  == loss_fn(f, we.w_ensemble)
        ks == {"loss_1", "loss_2", "avg_metric"}
    IN  [loss |-> l,
         keys |-> ks,
         values_dict |-> [k \in ks |->
                            CASE k = "loss_2" -> NoneV
                              [] k = "loss_1" -> Some(l)
                              [] k = "avg_metric" -> Some(we.avg_metric)],
         avg_metric |-> we.avg_metric]

\* compute_loss: the loss is loss_fn(w_e) whatever val is; val only selects
\* the names of the diagnostics.  values_dict holds None (no value) under
\* loss_2, the loss under loss_1 and avg_metric under avg_metric.
compute_loss(f, U, metric, val_is_false) ==
    LET we == compute_we(U, metric)
        l  == loss_fn(f, we.w_ensemble)
        k1 == IF val_is_false THEN "loss_1" ELSE "val_loss_1"
        k2 == IF val_is_false THEN "loss_2" ELSE "val_loss_2"
        ks == {k1, k2, "avg_metric"}
    IN  [loss |-> l,
         keys |-> ks,
         values_dict |-> [k \in ks |->
                            CASE k = k2 -> NoneV
                              [] k = k1 -> Some(l)
                              [] k = "avg_metric" -> Some(we.avg_metric)],
         avg_metric |-> we.avg_metric]

\* Python's  val == False  and  val == True  on the flag values explored
ValFlags == {"True", "False", "0", "1", "None", "'train'"}

\* variant: the train branch is taken for every flag that is not None
PyEqFalse_notNone(v) == v # "None"

PyEqFalse(v) == v \in {"False", "0"}
PyEqTrue(v)  == v \in {"True", "1"}

\* variant: the test  gradients is not None  instead of the truth value
PyTruthy_notNone(gradients) == gradients.kind = "list"

\* Python's truth value of the `gradients` argument: None and [] are falsy
PyTruthy(gradients) == gradients.kind = "list" /\ Len(gradients.items) > 0

\* variant: the accumulated gradients are left as they are
zero_grad_skipped(g, to_none) == g

\* optimizer.zero_grad(): every gradient is dropped (set_to_none) or, under
\* the older default, zeroed in place when present
zero_grad(g, to_none) ==
    [k \in Params |-> IF to_none \/ IsNone(g[k]) THEN NoneV ELSE Some(0)]

\* loss.backward(): autograd accumulates the gradient bg[k] of the loss into
\* p.grad for every parameter that takes part in the loss
backward(g, bg) ==
    [k \in Params |->
        IF IsNone(bg[k]) THEN g[k]
        ELSE IF IsNone(g[k]) THEN bg[k]
        ELSE Some(Get(g[k]) + Get(bg[k]))]

\* the list compute_gradients returns: one entry per parameter (None where
\* it has no gradient) with grads_to_cpu, only the present ones without
collect_grads(g, grads_to_cpu) ==
    LET all == [k \in Params |-> g[k]]
    IN  [kind  |-> "list",
         items |-> IF grads_to_cpu THEN all
                   ELSE SelectSeq(all, LAMBDA s : ~IsNone(s))]

NoneGrads == [kind |-> "None", items |-> <<>>]

\* variant: the None entries are dropped before the list is zipped with the
\* parameters, so later entries move to earlier parameters
assign_grads_compacted(g, items) ==
    LET present == SelectSeq(items, LAMBDA s : ~IsNone(s))
    IN  [k \in Params |-> IF k <= Len(present) THEN present[k] ELSE g[k]]

\* for g, p in zip(gradients, parameters): if g is not None: p.grad = g
assign_grads(g, items) ==
    [k \in Params |->
        IF k <= Len(items) /\ ~IsNone(items[k]) THEN items[k] ELSE g[k]]

\* variant: the optimizer step is committed before the clipping
apply_gradients_flow_stepfirst(gradients) ==
    IF PyTruthy(gradients) THEN <<"assign", "step", "clip">> ELSE <<"step">>

\* the steps one apply_gradients call performs, in order
apply_gradients_flow(gradients) ==
    IF PyTruthy(gradients) THEN <<"assign", "clip", "step">> ELSE <<"step">>

\* variant: the zero-loss test is missing
loss_nonzero_always(l) == TRUE

\* loss != 0.0
loss_nonzero(l) == l.num # 0

\* variant: the validation branch passes val=True on to compute_loss
validation_loss_prefixed(f, U, metric) == compute_loss(f, U, metric, FALSE)

\* the validation branch: self.compute_loss(crystal, states, embeddings),
\* with compute_loss's default val=False
validation_loss(f, U, metric) == compute_loss(f, U, metric, TRUE)

\* values_dict[key] = values_dict['avg_metric']
with_avg_metric(values_dict, key) ==
    [k \in DOMAIN values_dict \cup {key} |->
        IF k = key THEN values_dict["avg_metric"] ELSE values_dict[k]]

\* compute_gradients as a function of the gradient slots and the arguments:
\* the slots it leaves, what it returns and which calls it made
compute_gradients(g, to_none, val, f, U, metric, bg, grads_to_cpu) ==
    IF PyEqFalse(val) THEN
        LET zeroed == zero_grad(g, to_none)
            cl     == compute_loss(f, U, metric, TRUE)
        IN  IF loss_nonzero(cl.loss) THEN
                LET after == backward(zeroed, bg)
                IN  [raised |-> FALSE, mode |-> "train", grad |-> after,
                     ret |-> collect_grads(after, grads_to_cpu),
                     loss |-> cl.loss, nzero |-> 1, nbackward |-> 1,
                     keys |-> cl.keys \cup {"train_avg_metric"},
                     values_dict |-> with_avg_metric(cl.values_dict, "train_avg_metric")]
            ELSE
                [raised |-> FALSE, mode |-> "train", grad |-> zeroed,
                 ret |-> NoneGrads,
                 loss |-> cl.loss, nzero |-> 1, nbackward |-> 0,
                 keys |-> cl.keys \cup {"train_avg_metric"},
                 values_dict |-> with_avg_metric(cl.values_dict, "train_avg_metric")]
    ELSE IF PyEqTrue(val) THEN
        LET cl == validation_loss(f, U, metric)
        IN  [raised |-> FALSE, mode |-> "val", grad |-> g,
             ret |-> NoneGrads,
             loss |-> cl.loss, nzero |-> 0, nbackward |-> 0,
             keys |-> cl.keys \cup {"val_avg_metric"},
             values_dict |-> with_avg_metric(cl.values_dict, "val_avg_metric")]
    ELSE
        [raised |-> TRUE, mode |-> "invalid", grad |-> g, ret |-> NoneGrads,
         loss |-> [num |-> 0, den |-> 1], nzero |-> 0, nbackward |-> 0,
         keys |-> {}, values_dict |-> <<>>]

\* --------------------------------------------------------------- input sets
LrVals == {1, 2}

\* the state batches explored: the potential's energy U[i] and the metric
\* value metric[i] of each of the NStates states
Batches ==
    {[U |-> [i \in 1..NStates |-> u * i], metric |-> [i \in 1..NStates |-> m + d * i]] :
        <<u, m, d>> \in {<<7, 1, 0>>, <<7, 0, 2>>}}

\* the gradients autograd produces: every parameter takes part in the loss,
\* or only the first one does
BackGrads ==
    {[k \in Params |-> Some(4000)],
     [k \in Params |-> IF k = 1 THEN Some(4000) ELSE NoneV]}

\* the `gradients` arguments explored: None, [], a full list, a list with a
\* None entry, and a list shorter than the parameters
GradArgs ==
    {NoneGrads, [kind |-> "list", items |-> <<>>]}
    \cup {[kind |-> "list", items |-> it] :
            it \in {[k \in Params |-> Some(4000)],
                    [k \in Params |-> IF k = 1 THEN NoneV ELSE Some(-5000)],
                    <<Some(-5000)>>}}

\* ------------------------------------------------------------------- state
VARIABLES
    grad,            \* p.grad of every parameter
    gradnorm_queue,  \* self.gradnorm_queue, oldest entry first
    nsteps,          \* optimizer steps committed (optimizer state)
    lr,              \* the optimizer's learning rate
    set_to_none,     \* whether this build's zero_grad() drops or zeroes
    pc,              \* steps left in the apply_gradients call in progress
    ncalls,          \* apply_gradients calls started
    nappends,        \* entries added to the history after the seed
    fields,          \* self.loss, self.states, self.init_coords
    we,              \* the latest call of _extEpot, _weights or compute_we
                     \* on its own: its arguments and its results
    last             \* the latest operation: its arguments, its results,
                     \* the calls it made (nzero, nbackward, events) and
                     \* whether a gradient was attached when it began

vars == <<grad, gradnorm_queue, nsteps, lr, set_to_none, pc, ncalls, nappends,
          fields, we, last>>

NoLast ==
    [op |-> "init", gradients |-> NoneGrads, val |-> "False", raised |-> FALSE,
     mode |-> "", ret |-> NoneGrads, loss |-> [num |-> 0, den |-> 1],
     nzero |-> 0, nbackward |-> 0, had_grad |-> FALSE,
     T |-> 0, norm |-> 0, events |-> <<>>,
     args |-> [f |-> "", U |-> <<>>, metric |-> <<>>], values_dict |-> <<>>,
     bg |-> [k \in Params |-> NoneV]]

NoWE ==
    [op |-> "init", U |-> <<>>, T |-> T_DEFAULT, metric |-> <<>>,
     U_arg |-> <<>>, weights |-> <<>>, neff |-> effectiven(<<>>),
     w_ensemble |-> [num |-> 0, den |-> 1], avg_metric |-> [num |-> 0, den |-> 1],
     neff_threshold |-> NoneV]

\* variant: the history is created but not seeded
InitQueue_unseeded == <<>>

\* __init__: the history is created and seeded
InitQueue == QueueAdd(<<>>, SEED)

\* __init__: self.loss = tensor(0), self.states = None, self.init_coords = None
InitFields == [loss |-> [num |-> 0, den |-> 1], states |-> NoneV,
               init_coords |-> NoneV]

Init ==
    /\ grad = [k \in Params |-> NoneV]
    /\ gradnorm_queue = InitQueue
    /\ nsteps = 0
    /\ lr \in LrVals
    /\ set_to_none \in BOOLEAN
    /\ pc = <<>>
    /\ ncalls = 0
    /\ we = NoWE
    /\ nappends = 0
    /\ fields = InitFields
    /\ last = NoLast

Idle == pc = <<>>

\* ----------------------------------------------------------------- actions
\* whether a call with these arguments reaches loss.backward()
RunsBackward(val, f, b) ==
    PyEqFalse(val) /\ compute_loss(f, b.U, b.metric, TRUE).loss.num # 0

\* variant: compute_gradients clips the gradients it has just computed, and
\* so records their norm in the history
ComputeGradients_clips ==
    /\ Idle
    /\ \E val \in ValFlags, f \in LossFns, b \in Batches :
       \E bg \in IF RunsBackward(val, f, b) THEN BackGrads
                 ELSE {[k \in Params |-> NoneV]},
          grads_to_cpu \in IF RunsBackward(val, f, b) THEN BOOLEAN ELSE {TRUE} :
       \E r \in {compute_gradients(grad, set_to_none, val, f, b.U, b.metric,
                                   bg, grads_to_cpu)} :
          /\ grad' = r.grad
          /\ gradnorm_queue' =
                IF r.nbackward = 1
                THEN QueueAdd(gradnorm_queue, get_grad_norm(r.grad))
                ELSE gradnorm_queue
          /\ last' = [NoLast EXCEPT !.op = "compute_gradients",
                         !.val = val, !.raised = r.raised,
                         !.mode = r.mode, !.ret = r.ret, !.loss = r.loss,
                         !.nzero = r.nzero, !.nbackward = r.nbackward,
                         !.values_dict = r.values_dict, !.bg = bg,
                         !.had_grad = \E k \in Params : ~IsNone(grad[k])]
    /\ UNCHANGED <<nsteps, lr, set_to_none, pc, ncalls, nappends, fields, we>>

\* The gradient autograd produces and the grads_to_cpu flag are read only by
\* a call that back-propagates; they are enumerated only for such a call.
ComputeGradients ==
    /\ Idle
    /\ \E val \in ValFlags, f \in LossFns, b \in Batches :
       \E bg \in IF RunsBackward(val, f, b) THEN BackGrads
                 ELSE {[k \in Params |-> NoneV]},
          grads_to_cpu \in IF RunsBackward(val, f, b) THEN BOOLEAN ELSE {TRUE} :
       \E r \in {compute_gradients(grad, set_to_none, val, f, b.U, b.metric,
                                   bg, grads_to_cpu)} :
          /\ grad' = r.grad
          /\ last' = [NoLast EXCEPT !.op = "compute_gradients",
                         !.val = val, !.raised = r.raised,
                         !.mode = r.mode, !.ret = r.ret, !.loss = r.loss,
                         !.nzero = r.nzero, !.nbackward = r.nbackward,
                         !.values_dict = r.values_dict, !.bg = bg,
                         !.had_grad = \E k \in Params : ~IsNone(grad[k])]
    /\ UNCHANGED <<gradnorm_queue, nsteps, lr, set_to_none, pc, ncalls, nappends, fields, we>>

\* variant: compute_loss keeps the loss it computed in self.loss
ComputeLoss_stores ==
    /\ Idle
    /\ \E val \in {"True", "False"}, f \in LossFns, b \in Batches :
       \E r \in {compute_loss(f, b.U, b.metric, PyEqFalse(val))} :
          /\ last' = [NoLast EXCEPT !.op = "compute_loss", !.val = val,
                         !.args = [f |-> f, U |-> b.U, metric |-> b.metric],
                         !.loss = r.loss, !.values_dict = r.values_dict]
          /\ fields' = [fields EXCEPT !.loss = r.loss]
    /\ UNCHANGED <<grad, gradnorm_queue, nsteps, lr, set_to_none, pc, ncalls, nappends, we>>

ComputeLoss ==
    /\ Idle
    /\ \E val \in {"True", "False"}, f \in LossFns, b \in Batches :
       \E r \in {compute_loss(f, b.U, b.metric, PyEqFalse(val))} :
          last' = [NoLast EXCEPT !.op = "compute_loss", !.val = val,
                      !.args = [f |-> f, U |-> b.U, metric |-> b.metric],
                      !.loss = r.loss, !.values_dict = r.values_dict]
    /\ UNCHANGED <<grad, gradnorm_queue, nsteps, lr, set_to_none, pc, ncalls, nappends, fields, we>>

ComputeWe ==
    /\ Idle
    /\ \E b \in Batches :
          last' = [NoLast EXCEPT !.op = "compute_we",
                      !.loss = compute_we(b.U, b.metric).w_ensemble]
    /\ UNCHANGED <<grad, gradnorm_queue, nsteps, lr, set_to_none, pc, ncalls, nappends, fields, we>>

SetLr ==
    /\ Idle
    /\ \E new \in LrVals :
          /\ lr' = new
          /\ last' = [NoLast EXCEPT !.op = "set_lr"]
    /\ UNCHANGED <<grad, gradnorm_queue, nsteps, set_to_none, pc, ncalls, nappends, fields, we>>

\* get_loss: returns self.loss
GetLoss ==
    /\ Idle
    /\ last' = [NoLast EXCEPT !.op = "get_loss", !.loss = fields.loss]
    /\ UNCHANGED <<grad, gradnorm_queue, nsteps, lr, set_to_none, pc, ncalls,
                   nappends, fields, we>>

\* get_native_U: the evaluator on the single ground-truth state
GetNativeU ==
    /\ Idle
    /\ \E u \in {0, 7} :
          last' = [NoLast EXCEPT !.op = "get_native_U",
                      !.loss = [num |-> extEpot(<<u>>).U_ext[1], den |-> 1]]
    /\ UNCHANGED <<grad, gradnorm_queue, nsteps, lr, set_to_none, pc, ncalls,
                   nappends, fields, we>>

\* get_init_state: returns self.init_coords
GetInitState ==
    /\ Idle
    /\ last' = [NoLast EXCEPT !.op = "get_init_state",
                    !.ret = [kind |-> "None", items |-> fields.init_coords]]
    /\ UNCHANGED <<grad, gradnorm_queue, nsteps, lr, set_to_none, pc, ncalls,
                   nappends, fields, we>>

\* apply_gradients is entered with its argument
ApplyGradients ==
    /\ Idle
    /\ ncalls < MaxCalls
    /\ \E gradients \in GradArgs :
          /\ pc' = apply_gradients_flow(gradients)
          /\ last' = [NoLast EXCEPT !.op = "apply_gradients",
                         !.gradients = gradients]
    /\ ncalls' = ncalls + 1
    /\ UNCHANGED <<grad, gradnorm_queue, nsteps, lr, set_to_none, nappends, fields, we>>

\* the loop over zip(gradients, parameters)
AssignGradients ==
    /\ pc # <<>> /\ Head(pc) = "assign"
    /\ grad' = assign_grads(grad, last.gradients.items)
    /\ pc' = Tail(pc)
    /\ last' = [last EXCEPT !.events = Append(@, "assign")]
    /\ UNCHANGED <<gradnorm_queue, nsteps, lr, set_to_none, ncalls, nappends, fields, we>>

\* self.clip_gradients()
ClipGradients ==
    /\ pc # <<>> /\ Head(pc) = "clip"
    /\ LET T         == dynamic_max_grad_norm(gradnorm_queue)
           grad_norm == get_grad_norm(grad)
       IN  /\ grad' = ClipParams(grad, T)
           /\ gradnorm_queue' = QueueAdd(gradnorm_queue, QueueEntry(grad_norm, T))
           /\ last' = [last EXCEPT !.T = T, !.norm = grad_norm,
                          !.events = @ \o <<"clip", "append">>]
    /\ pc' = Tail(pc)
    /\ nappends' = nappends + 1
    /\ UNCHANGED <<nsteps, lr, set_to_none, ncalls, fields, we>>

\* self.optimizer.step()
OptimizerStep ==
    /\ pc # <<>> /\ Head(pc) = "step"
    /\ nsteps' = nsteps + 1
    /\ pc' = Tail(pc)
    /\ last' = [last EXCEPT !.events = Append(@, "step")]
    /\ UNCHANGED <<grad, gradnorm_queue, lr, set_to_none, ncalls, nappends, fields, we>>

Next ==
    \/ ComputeGradients
    \/ ComputeLoss
    \/ ComputeWe
    \/ SetLr
    \/ GetLoss
    \/ GetNativeU
    \/ GetInitState
    \/ ApplyGradients
    \/ AssignGradients
    \/ ClipGradients
    \/ OptimizerStep

Spec == Init /\ [][Next]_vars

\* ------------------------------------- _weights and compute_we on their own
\* the energies the potential returns for a state
EnergyLevels == {0, 5, 10}

\* batches whose energies are near each other, and batches in which some
\* are far above the others
NearVectors == UNION {[1..n -> EnergyLevels] : n \in 1..MaxStates}
FarVectors  == UNION {[1..n -> {0, 100000}] : n \in 1..MaxStates}
EnergyVectors == NearVectors \cup FarVectors

\* the temperatures an estimator is constructed with
Temperatures == {300, T_DEFAULT}

\* the metric values of a batch of n states: 1, 2, .., n, and the same with
\* the first or the last value replaced by one at or above the clamp
MetricVectors(n) ==
    LET ramp == [i \in 1..n |-> i]
    IN  {ramp} \cup {[ramp EXCEPT ![k] = v] :
                        k \in {1, n},
                        v \in {OBS_CLAMP, OBS_CLAMP + 1, 2 * OBS_CLAMP}}

InitWE == Init /\ lr = 1 /\ set_to_none = TRUE

OtherVars == <<grad, gradnorm_queue, nsteps, lr, set_to_none, pc, ncalls,
               nappends, fields, last>>

\* _weights on a batch whose states have the energies U, followed by
\* _effectiven on the weights it returned
CallWeights ==
    \E U \in EnergyVectors, T \in Temperatures :
    \E w \in {weights(U, T)} :
       /\ we' = [NoWE EXCEPT !.op = "_weights", !.U = U, !.T = T,
                    !.U_arg = U_arg(U, T), !.weights = w,
                    !.neff = effectiven(w)]
       /\ UNCHANGED OtherVars

\* compute_we of an estimator with the default temperature
CallComputeWe ==
    \E U \in FarVectors :
    \E metric \in MetricVectors(Len(U)) :
    \E neff_threshold \in {NoneV, Some(3)} :
    \E r \in {compute_we_neff(U, metric, neff_threshold)},
       w \in {weights(U, T_DEFAULT)} :
       /\ we' = [NoWE EXCEPT !.op = "compute_we", !.U = U, !.metric = metric,
                    !.neff_threshold = neff_threshold,
                    !.U_arg = U_arg(U, T_DEFAULT), !.weights = w,
                    !.neff = effectiven(w),
                    !.w_ensemble = r.w_ensemble, !.avg_metric = r.avg_metric]
       /\ UNCHANGED OtherVars

NextWE == CallWeights \/ CallComputeWe

SpecWE == InitWE /\ [][NextWE]_vars

\* --------------------------------------- gradients sent to another estimator
\* the gradient of each parameter that back-propagation produces on the
\* sender: at least one parameter takes part in the loss
SentGradVals == {-5000, 7, 4000, 9000}
SenderBackGrads ==
    {bg \in [Params -> {NoneV} \cup {Some(v) : v \in SentGradVals}] :
        \E k \in Params : ~IsNone(bg[k])}

\* the gradient slots of the receiver before the call
ReceiverGrads ==
    {[k \in Params |-> NoneV], [k \in Params |-> Some(1)],
     [k \in Params |-> IF k = 1 THEN Some(1) ELSE NoneV]}

\* a batch on which the hinge loss is not zero
LossyBatch ==
    CHOOSE b \in Batches : loss_nonzero(compute_loss("hinge", b.U, b.metric, TRUE).loss)

\* the loop of apply_gradients on a list whose entries are numpy arrays
\* (ndarray) or torch tensors: torch.from_numpy raises TypeError on a
\* tensor, at the first entry that is not None and has a parameter to go
\* to; nothing was assigned before it and nothing runs after it
apply_gradients_loop(g, gradients, ndarray) ==
    IF ~PyTruthy(gradients) THEN [raised |-> FALSE, grad |-> g]
    ELSE IF ~ndarray /\ \E k \in Params :
                            k <= Len(gradients.items) /\ ~IsNone(gradients.items[k])
         THEN [raised |-> TRUE, grad |-> g]
         ELSE [raised |-> FALSE, grad |-> assign_grads(g, gradients.items)]

\* train-mode compute_gradients with a nonzero loss on a sender whose slots
\* are clear, then apply_gradients of the list it returned on a receiver
\* with the same parameters; with grads_to_cpu the entries are numpy
\* arrays, without it they are the gradient tensors themselves
RoundTrip ==
    \E bg \in SenderBackGrads, grads_to_cpu \in BOOLEAN, g0 \in ReceiverGrads :
    \E snd \in {compute_gradients([k \in Params |-> NoneV], set_to_none, "False",
                                   "hinge", LossyBatch.U, LossyBatch.metric,
                                   bg, grads_to_cpu)} :
    \E rcv \in {apply_gradients_loop(g0, snd.ret, grads_to_cpu)} :
       /\ we' = [op |-> "round_trip", grads_to_cpu |-> grads_to_cpu,
                 sender_grad |-> snd.grad, sent |-> snd.ret,
                 receiver_before |-> g0,
                 raised |-> rcv.raised, receiver_grad |-> rcv.grad]
       /\ UNCHANGED OtherVars

NextRT == RoundTrip

SpecRT == InitWE /\ [][NextRT]_vars

\* ------------------------------------------------------ _extEpot on its own
\* self.nnp: the potential's energy of a state with coordinates pos whose
\* atoms have the types emb; distinct arguments give distinct energies
nnp(emb, pos) == 10 * emb + pos

\* _extEpot of an estimator constructed with `replicas`: batch_num is the
\* floor of n / replicas; sub-batch irepl is states[batch_num * irepl :
\* batch_num * (irepl + 1)], every sub-batch is evaluated with embeddings[0]
\* (the first row), and the energies are concatenated in sub-batch order.
\* The result is a set of outcomes: with batch_num = 0 the potential is
\* called on empty tensors, which it may reject or answer with no energy.
extEpot_replicas(states, embeddings, replicas) ==
    LET batch_num == Len(states) \div replicas
        ext == [i \in 1..(batch_num * replicas) |-> nnp(embeddings[1], states[i])]
        ok  == [raised |-> FALSE, U_ext |-> ext, U_ext_hat |-> ext]
    IN  IF batch_num = 0
        THEN {ok, [raised |-> TRUE, U_ext |-> <<>>, U_ext_hat |-> <<>>]}
        ELSE {ok}

\* the coordinates of a state, and the atom types of a topology
Positions == {1, 2}
AtomTypes == {1, 2}

StateBatches == UNION {[1..n -> Positions] : n \in 1..MaxStates}

\* _extEpot on a batch of states, with one embedding row per replica
CallExtEpot ==
    \E replicas \in 1..MaxReplicas :
    \E states \in StateBatches, embeddings \in [1..replicas -> AtomTypes] :
    \E r \in extEpot_replicas(states, embeddings, replicas) :
       /\ we' = [op |-> "_extEpot", states |-> states,
                 embeddings |-> embeddings, replicas |-> replicas,
                 raised |-> r.raised, U_ext |-> r.U_ext,
                 U_ext_hat |-> r.U_ext_hat]
       /\ UNCHANGED OtherVars

NextEP == CallExtEpot

SpecEP == InitWE /\ [][NextEP]_vars

\* ------------------------------------------------------------------ claims
IsOp(l, name) == l.op = name
Cleared(slot) == IsNone(slot) \/ Get(slot) = 0
FullEvents == <<"assign", "clip", "append", "step">>
IsPrefix(a, b) == Len(a) <= Len(b) /\ a = SubSeq(b, 1, Len(a))

\* C1: when apply_gradients was given non-empty gradients and the total
\* gradient norm before clipping exceeded the threshold T computed from the
\* history before the call, the total gradient norm over all parameters at
\* the moment the optimizer step is committed equals T.
C1_TotalNormEqualsThreshold ==
    (IsOp(last, "apply_gradients") /\ pc = <<"step">>
        /\ last.events = <<"assign", "clip", "append">> /\ last.norm > last.T)
    => get_grad_norm(grad) = last.T

\* C2: every clip_gradients call appends exactly one entry to the history:
\* the threshold T of the history before the append when the pre-clip total
\* norm exceeds T, the raw pre-clip norm otherwise; the entry is min(norm, T)
\* and never exceeds T.
C2_AppendsMinOfNormAndThreshold ==
    [][(pc # <<>> /\ Head(pc) = "clip") =>
        LET T     == (3 * QueueMean(gradnorm_queue)) \div 2
                        + 2 * QueueStd(gradnorm_queue)
            norm  == get_grad_norm(grad)
            n     == Len(gradnorm_queue')
            entry == gradnorm_queue'[n]
        IN  /\ n >= 1
            /\ \/ SubSeq(gradnorm_queue', 1, n - 1) = gradnorm_queue
               \/ SubSeq(gradnorm_queue', 1, n - 1) = Tail(gradnorm_queue)
            /\ norm > T  => entry = T
            /\ norm <= T => entry = norm
            /\ entry <= T /\ entry <= norm]_vars

C2_Witness ==
    /\ IsOp(last, "apply_gradients")
    /\ last.events = <<"assign", "clip", "append">>
    /\ last.norm > last.T
    /\ gradnorm_queue[Len(gradnorm_queue)] = last.T

\* C3 as stated: a train-mode compute_gradients call whose loss is exactly 0
\* leaves every gradient slot as it was before the call.
C3_ZeroLossKeepsGradients ==
    [][(IsOp(last', "compute_gradients") /\ last'.val = "False"
            /\ last'.loss.num = 0)
        => grad' = grad]_vars

\* C3 as amended: a train-mode compute_gradients call whose loss is exactly 0
\* leaves every gradient slot cleared (None, or zero where zero_grad zeroes
\* in place), whatever was accumulated before, and back-propagates nothing
\* into the slots.
C3_ZeroLossLeavesGradientsCleared ==
    [][(IsOp(last', "compute_gradients") /\ last'.val = "False"
            /\ last'.loss.num = 0)
        => /\ \A k \in Params : Cleared(grad'[k])
           /\ \A k \in Params : IsNone(grad[k]) => IsNone(grad'[k])
           /\ last'.nzero = 1 /\ last'.nbackward = 0]_vars

C3_Witness ==
    /\ IsOp(last, "compute_gradients") /\ last.val = "False"
    /\ last.loss.num = 0 /\ last.had_grad
    /\ \A k \in Params : Cleared(grad[k])

\* C4: in train mode a zero loss means no back-propagation and the returned
\* gradients are None (not an empty list); a nonzero loss means exactly one
\* back-propagation and a returned gradient list.
C4_ZeroLossShortCircuit ==
    (IsOp(last, "compute_gradients") /\ last.mode = "train") =>
        /\ last.loss.num = 0 => (last.nbackward = 0 /\ last.ret.kind = "None")
        /\ last.loss.num # 0 => (last.nbackward = 1 /\ last.ret.kind = "list")

C4_Witness ==
    /\ IsOp(last, "compute_gradients") /\ last.mode = "train"
    /\ last.loss.num = 0 /\ last.nbackward = 0 /\ last.ret = NoneGrads
    /\ last.had_grad

\* C5: compute_gradients raises an error for every value of val other than
\* the booleans True and False, the integers 0 and 1 included.
C5_NonBooleanFlagRejected ==
    (IsOp(last, "compute_gradients") /\ last.val \notin {"True", "False"})
    => last.raised

\* C6: compute_gradients with val=True returns gradients None for every loss
\* value, calls neither zero_grad nor backward, and leaves the gradient
\* slots, the optimizer state and the gradient-norm history unchanged.
C6_ValidationChangesNothing ==
    [][(IsOp(last', "compute_gradients") /\ last'.val = "True")
        => /\ ~last'.raised /\ last'.ret.kind = "None"
           /\ last'.nzero = 0 /\ last'.nbackward = 0
           /\ grad' = grad /\ gradnorm_queue' = gradnorm_queue
           /\ nsteps' = nsteps /\ lr' = lr]_vars

C6_Witness ==
    /\ IsOp(last, "compute_gradients") /\ last.val = "True"
    /\ last.loss.num # 0 /\ last.ret = NoneGrads /\ last.had_grad
    /\ \E k \in Params : ~Cleared(grad[k])

\* C7: the assignment loop of apply_gradients puts gradients[k] on the k-th
\* parameter when it is not None and leaves the k-th parameter's slot as it
\* was when gradients[k] is None or absent; no parameter receives the entry
\* of another position.
C7_AssignsByPosition ==
    [][(pc # <<>> /\ Head(pc) = "assign") =>
        LET items == last.gradients.items
        IN  \A k \in Params :
                grad'[k] = IF k <= Len(items) /\ items[k] # NoneV
                           THEN items[k] ELSE grad[k]]_vars

C7_Witness ==
    /\ IsOp(last, "apply_gradients") /\ last.events = <<"assign">>
    /\ Len(last.gradients.items) = 2
    /\ last.gradients.items[1] = NoneV
    /\ last.gradients.items[2] = Some(-5000)
    /\ grad[1] = Some(4000) /\ grad[2] = Some(-5000)

\* C8: apply_gradients with None or an empty list commits exactly one
\* optimizer step, does no clipping, and leaves the history and every
\* gradient slot unchanged.
C8_EmptyGradientsOnlyStep ==
    [][(IsOp(last', "apply_gradients") /\ last'.gradients.items = <<>>)
        => /\ grad' = grad /\ gradnorm_queue' = gradnorm_queue
           /\ pc' # <<>> => (pc' = <<"step">> /\ nsteps' = nsteps
                               /\ last'.events = <<>>)
           /\ pc' = <<>> => (nsteps' = nsteps + 1
                               /\ last'.events = <<"step">>)]_vars

C8_Witness ==
    /\ IsOp(last, "apply_gradients") /\ pc = <<>>
    /\ last.gradients = [kind |-> "list", items |-> <<>>]
    /\ last.events = <<"step">>
    /\ \E k \in Params : ~Cleared(grad[k])

\* C9: a call of apply_gradients with non-empty gradients performs the
\* assignments, then the clipping with its history append, then the
\* optimizer step; every apply_gradients call commits exactly one optimizer
\* step, and no other operation commits any.
C9_OrderAndOneStepPerCall ==
    /\ [](IsOp(last, "apply_gradients") /\ last.gradients.items # <<>>
            => /\ IsPrefix(last.events, FullEvents)
               /\ pc = <<>> => last.events = FullEvents)
    /\ [](pc = <<>> => nsteps = ncalls)
    /\ [](pc # <<>> => nsteps = ncalls - 1)
    /\ [][nsteps' # nsteps =>
            /\ nsteps' = nsteps + 1
            /\ IsOp(last, "apply_gradients") /\ IsOp(last', "apply_gradients")
            /\ pc' = <<>>]_vars

C9_Witness ==
    /\ IsOp(last, "apply_gradients") /\ pc = <<>>
    /\ last.events = FullEvents
    /\ nsteps = 2 /\ ncalls = 2

\* C10: the gradient-norm history is never empty and never longer than its
\* capacity; right after construction it holds exactly the seed 3000; an
\* entry is only ever removed by evicting the oldest one when an append
\* arrives at full capacity, and the length never decreases.
C10_HistoryBoundedAndSeeded ==
    /\ [](Len(gradnorm_queue) >= 1 /\ Len(gradnorm_queue) <= MaxLen)
    /\ [](IsOp(last, "init") => gradnorm_queue = <<3000>>)
    /\ [][LET n == Len(gradnorm_queue')
          IN  \/ gradnorm_queue' = gradnorm_queue
              \/ /\ Len(gradnorm_queue) < MaxLen
                 /\ SubSeq(gradnorm_queue', 1, n - 1) = gradnorm_queue
              \/ /\ Len(gradnorm_queue) = MaxLen
                 /\ n = MaxLen
                 /\ SubSeq(gradnorm_queue', 1, n - 1) = Tail(gradnorm_queue)]_vars

C10_Witness ==
    /\ nsteps = MaxLen
    /\ Len(gradnorm_queue) = MaxLen
    /\ gradnorm_queue[1] # 3000

\* C11: after construction the gradient-norm history changes only inside an
\* apply_gradients call: compute_we, compute_loss, compute_gradients (train,
\* validation or invalid flag), set_lr, get_loss, get_native_U and
\* get_init_state leave it as it is, in any interleaving.
C11_HistoryChangedOnlyByApply ==
    /\ [][last'.op \in {"compute_we", "compute_loss", "compute_gradients",
                        "set_lr", "get_loss", "get_native_U", "get_init_state"}
            => gradnorm_queue' = gradnorm_queue /\ nappends' = nappends]_vars
    /\ [][(gradnorm_queue' # gradnorm_queue \/ nappends' # nappends)
            => /\ IsOp(last, "apply_gradients") /\ IsOp(last', "apply_gradients")
               /\ pc # <<>>]_vars

C11_Witness ==
    /\ IsOp(last, "compute_gradients") /\ last.mode = "train"
    /\ last.nbackward = 1
    /\ nappends = 1 /\ gradnorm_queue = <<3000, 4500>>

\* C12 as stated: the history receives exactly one append for each optimizer
\* step committed, so whenever no call is in progress the number of entries
\* appended after the seed equals the number of optimizer steps.
C12_OneAppendPerStep ==
    pc = <<>> => nappends = nsteps

\* C12 as amended: an apply_gradients call with non-empty gradients appends
\* exactly one entry, and does so before its optimizer step; a call with
\* empty or absent gradients commits its step without an append; so the
\* number of appended entries never exceeds the number of calls and, between
\* calls, never exceeds the number of optimizer steps.
C12_AppendBeforeStepOfNonEmptyCall ==
    /\ [](nappends <= ncalls)
    /\ [](pc = <<>> => nappends <= nsteps)
    /\ [][nappends' # nappends =>
            /\ nappends' = nappends + 1
            /\ IsOp(last', "apply_gradients") /\ last'.gradients.items # <<>>
            /\ nsteps' = nsteps /\ pc' = <<"step">>]_vars
    /\ [][nsteps' # nsteps =>
            Cardinality({i \in 1..Len(last.events) : last.events[i] = "append"})
              = IF last.gradients.items # <<>> THEN 1 ELSE 0]_vars

C12_Witness ==
    /\ pc = <<>> /\ nsteps = 2 /\ nappends = 1
    /\ IsOp(last, "apply_gradients") /\ last.gradients.items # <<>>

\* ------------------------------------------------ claims on the weights
WeightsCall == we.op \in {"_weights", "compute_we"}
AllSameEnergy(U) == \A i \in 1..Len(U) : U[i] = U[1]
Uniform(w, n) == Len(w) = n /\ \A i \in 1..n : w[i].den > 0 /\ w[i].num * n = w[i].den
\* neff = k, and  lo/10 <= neff <= hi/10
NeffIs(neff, k) == neff.den > 0 /\ neff.num = Pow(k, neff.pow) * neff.den
NeffBetween(neff, lo, hi) ==
    /\ neff.den > 0
    /\ Pow(lo, neff.pow) * neff.den <= neff.num * Pow(10, neff.pow)
    /\ neff.num * Pow(10, neff.pow) <= Pow(hi, neff.pow) * neff.den
Clamped(metric) ==
    [i \in 1..Len(metric) |-> IF metric[i] <= OBS_CLAMP THEN metric[i] ELSE OBS_CLAMP]

\* C13: for every non-empty batch and every energy vector, _weights returns
\* one weight per state, every weight is non-negative, and the weights sum
\* to 1.
C13_WeightsNormalised ==
    we.op = "_weights" =>
        /\ Len(we.weights) = Len(we.U)
        /\ \A i \in 1..Len(we.weights) :
              /\ we.weights[i].den > 0 /\ we.weights[i].num >= 0
              /\ we.weights[i].den = we.weights[1].den
        /\ SeqSum([i \in 1..Len(we.weights) |-> we.weights[i].num])
              = we.weights[1].den

C13_Witness ==
    /\ we.op = "_weights" /\ Len(we.U) = 3
    /\ we.U[1] # we.U[2] /\ we.U[3] = 100000

\* C14: every unnormalised log-weight u_i is 0, so every weight is
\* 1/n_states, whatever the energies and T are: two calls on batches of the
\* same size return the same weights.
C14_LogWeightsZeroWeightsUniform ==
    /\ [](we.op = "_weights" =>
            /\ \A i \in 1..Len(we.U_arg) : we.U_arg[i] = 0
            /\ Uniform(we.weights, Len(we.U)))
    /\ [][(we.op = "_weights" /\ we'.op = "_weights" /\ Len(we'.U) = Len(we.U))
            => we'.weights = we.weights]_vars

C14_Witness ==
    /\ we.op = "_weights" /\ we.U = <<0, 100000, 0>> /\ we.T = 300
    /\ we.U_arg = <<0, 0, 0>> /\ we.weights[2] = [num |-> 1, den |-> 3]

\* C15 as stated: when all n states have the same energy the weights are
\* 1/n each, neff = n and the weighted observable is the arithmetic mean of
\* the metric values; 4 states with energies [0,0,0,0] and metric values
\* [1,2,3,4] at T = 350 give weights 0.25 each, weighted observable 2.5 and
\* neff 4.
C15_IdenticalEnergiesGiveMeanOfMetric ==
    (WeightsCall /\ AllSameEnergy(we.U)) =>
        /\ Uniform(we.weights, Len(we.U))
        /\ NeffIs(we.neff, Len(we.U))
        /\ we.op = "compute_we" =>
              /\ we.w_ensemble.den > 0
              /\ we.w_ensemble.num * Len(we.U)
                    = SeqSum(we.metric) * we.w_ensemble.den

\* C15 as amended: when all n states have the same energy the weights are
\* 1/n each, neff = n and the weighted observable is the arithmetic mean of
\* the metric values after the clamp at 1e7 (the mean of the metric values
\* themselves when none exceeds 1e7); the scenario above gives weights 0.25
\* each, weighted observable 2.5 (5/2) and neff 4.
C15_IdenticalEnergiesGiveMeanOfClampedMetric ==
    /\ (WeightsCall /\ AllSameEnergy(we.U)) =>
          /\ Uniform(we.weights, Len(we.U))
          /\ NeffIs(we.neff, Len(we.U))
          /\ we.op = "compute_we" =>
                /\ we.w_ensemble.den > 0
                /\ we.w_ensemble.num * Len(we.U)
                      = SeqSum(Clamped(we.metric)) * we.w_ensemble.den
                /\ (\A i \in 1..Len(we.metric) : we.metric[i] <= OBS_CLAMP)
                      => we.w_ensemble.num * Len(we.U)
                            = SeqSum(we.metric) * we.w_ensemble.den
    /\ (we.op = "compute_we" /\ we.U = <<0, 0, 0, 0>>
          /\ we.metric = <<1, 2, 3, 4>> /\ we.T = 350) =>
          /\ \A i \in 1..4 : we.weights[i].num * 4 = we.weights[i].den
          /\ we.w_ensemble.num * 2 = 5 * we.w_ensemble.den
          /\ NeffIs(we.neff, 4)

C15_Witness ==
    /\ we.op = "compute_we" /\ we.U = <<100000, 100000>>
    /\ we.metric = <<OBS_CLAMP + 1, 2>>
    /\ we.w_ensemble.num * 2 = (OBS_CLAMP + 2) * we.w_ensemble.den

\* C16 as stated: for energies [0,0,0,100000] at T = 350 the weight of the
\* 4th state is about 0 (at most 1/100), the other three about 1/3 each, and
\* neff is about 3 (between 2.9 and 3.1).
C16_HighEnergyStateGetsNoWeight ==
    (we.op = "_weights" /\ we.U = <<0, 0, 0, 100000>> /\ we.T = 350) =>
        /\ we.weights[4].num * 100 <= we.weights[4].den
        /\ \A i \in 1..3 : we.weights[i].num * 100 >= 32 * we.weights[i].den
        /\ NeffBetween(we.neff, 29, 31)

\* C16 as amended: for energies [0,0,0,100000] at T = 350 every state,
\* the 4th included, has weight 0.25, and neff is 4.
C16_HighEnergyStateKeepsUniformWeight ==
    (we.op = "_weights" /\ we.U = <<0, 0, 0, 100000>> /\ we.T = 350) =>
        /\ \A i \in 1..4 : we.weights[i].den > 0
                            /\ we.weights[i].num * 4 = we.weights[i].den
        /\ NeffIs(we.neff, 4)

C16_Witness ==
    /\ we.op = "_weights" /\ we.U = <<0, 0, 0, 100000>> /\ we.T = 350
    /\ we.weights[4] = [num |-> 1, den |-> 4]

\* one state's energy is below every other state's by the largest gap explored
FarBelow(U, k) ==
    /\ Len(U) > 1
    /\ \A i \in 1..Len(U) : i # k => U[i] - U[k] >= 100000

\* C17 as stated: when one state's energy is far below all the others' its
\* weight is close to 1 (at least 99/100) and neff is close to 1 (at most 1.1).
C17_LowestStateTakesAllWeight ==
    \A k \in 1..Len(we.U) :
        (we.op = "_weights" /\ FarBelow(we.U, k)) =>
            /\ we.weights[k].num * 100 >= 99 * we.weights[k].den
            /\ NeffBetween(we.neff, 10, 11)

\* C17 as amended: however far one state's energy is driven below all the
\* others', its weight stays 1/n and neff stays n; lowering it changes
\* neither.
C17_LowestStateKeepsUniformWeight ==
    /\ [](\A k \in 1..Len(we.U) :
            (we.op = "_weights" /\ FarBelow(we.U, k)) =>
                /\ we.weights[k].den > 0
                /\ we.weights[k].num * Len(we.U) = we.weights[k].den
                /\ NeffIs(we.neff, Len(we.U)))
    /\ [][\A k \in 1..Len(we.U) :
            (/\ we.op = "_weights" /\ we'.op = "_weights"
             /\ Len(we'.U) = Len(we.U) /\ we'.U[k] < we.U[k]
             /\ \A i \in 1..Len(we.U) : i # k => we'.U[i] = we.U[i])
            => we'.weights[k] = we.weights[k] /\ we'.neff = we.neff]_vars

C17_Witness ==
    /\ we.op = "_weights" /\ we.U = <<100000, 0, 100000>>
    /\ we.weights[2] = [num |-> 1, den |-> 3] /\ NeffIs(we.neff, 3)

\* C18: adding the same constant to the energy of every state leaves the
\* weights and neff as they are: a call on U and a call on U + c return the
\* same weights and the same neff.
C18_ShiftInvariant ==
    [][(/\ we.op = "_weights" /\ we'.op = "_weights" /\ we'.T = we.T
        /\ Len(we'.U) = Len(we.U)
        /\ \E c \in {-100000, -5, 5, 100000} : \A i \in 1..Len(we.U) : we'.U[i] = we.U[i] + c)
       => we'.weights = we.weights /\ we'.neff = we.neff]_vars

C18_Witness ==
    /\ we.op = "_weights" /\ we.U = <<5, 10, 5>> /\ we.T = 350
    /\ Uniform(we.weights, 3) /\ NeffIs(we.neff, 3)

\* C19: compute_we replaces every metric value above 1e7 by exactly 1e7 and
\* leaves every other value as it is before weighting: the weighted
\* observable is the weighted sum of min(metric, 1e7), a state contributes
\* at most w_i * 1e7, and replacing a value above 1e7 by another value above
\* 1e7 does not change the weighted observable.
C19_MetricClampedAtTenMillion ==
    /\ [](we.op = "compute_we" =>
            /\ we.w_ensemble.den > 0
            /\ we.w_ensemble.num * we.weights[1].den
                 = SeqSum([i \in 1..Len(we.metric) |->
                             we.weights[i].num * Clamped(we.metric)[i]])
                   * we.w_ensemble.den
            /\ we.avg_metric.num = SeqSum(Clamped(we.metric)))
    /\ [][(/\ we.op = "compute_we" /\ we'.op = "compute_we" /\ we'.U = we.U
           /\ \A i \in 1..Len(we.metric) :
                 \/ we'.metric[i] = we.metric[i]
                 \/ we'.metric[i] > OBS_CLAMP /\ we.metric[i] > OBS_CLAMP)
          => we'.w_ensemble = we.w_ensemble]_vars

C19_Witness ==
    /\ we.op = "compute_we" /\ we.U = <<0, 100000>>
    /\ we.metric = <<2 * OBS_CLAMP, 2>>
    /\ we.w_ensemble = [num |-> OBS_CLAMP + 2, den |-> 2]

\* C20: compute_loss returns diagnostics whose keys are exactly loss_1,
\* loss_2, avg_metric when val=False and val_loss_1, val_loss_2, avg_metric
\* when val=True; loss_2 / val_loss_2 is None, loss_1 / val_loss_1 is the
\* returned loss, and the returned loss is the same for both values of val.
C20_DiagnosticsKeysAndLoss ==
    /\ [](IsOp(last, "compute_loss") =>
            LET k1 == IF last.val = "False" THEN "loss_1" ELSE "val_loss_1"
                k2 == IF last.val = "False" THEN "loss_2" ELSE "val_loss_2"
            IN  /\ last.val \in {"False", "True"}
                /\ DOMAIN last.values_dict = {k1, k2, "avg_metric"}
                /\ last.values_dict[k2] = NoneV
                /\ last.values_dict[k1] = Some(last.loss))
    /\ [][(IsOp(last, "compute_loss") /\ IsOp(last', "compute_loss")
             /\ last'.args = last.args)
          => last'.loss = last.loss]_vars

C20_Witness ==
    /\ IsOp(last, "compute_loss") /\ last.val = "True"
    /\ last.args.f = "hinge" /\ last.loss.num > 0
    /\ DOMAIN last.values_dict = {"val_loss_1", "val_loss_2", "avg_metric"}
    /\ last.values_dict["val_loss_1"] = Some(last.loss)

\* ------------------------------------------------- claims on the evaluator
\* the replica (counted from 1) whose sub-batch holds state i
ReplicaOf(i, n, replicas) == ((i - 1) \div (n \div replicas)) + 1

\* C21: _extEpot fails with an error whenever the number of states is not
\* a multiple of `replicas`; it never returns energies for only a prefix of
\* the states.
C21_IndivisibleBatchRejected ==
    (we.op = "_extEpot" /\ Len(we.states) % we.replicas # 0) => we.raised

\* C22: for every replica r the states of the r-th contiguous sub-batch are
\* evaluated with the r-th embedding row.
C22_SubBatchUsesItsEmbeddingRow ==
    (we.op = "_extEpot" /\ ~we.raised) =>
        \A i \in 1..Len(we.U_ext) :
            \E p \in Positions :
                we.U_ext[i] =
                    nnp(we.embeddings[ReplicaOf(i, Len(we.states), we.replicas)], p)

\* C23: when n_states = replicas * batch_num, _extEpot returns two
\* sequences of n_states energies; entry i of both is the potential's
\* energy of input state i, a state of the topology of its replica.
C23_EnergiesOfStatesInInputOrder ==
    (we.op = "_extEpot" /\ Len(we.states) % we.replicas = 0) =>
        /\ ~we.raised
        /\ Len(we.U_ext) = Len(we.states)
        /\ we.U_ext_hat = we.U_ext
        /\ \A i \in 1..Len(we.states) :
              we.U_ext[i] =
                  nnp(we.embeddings[ReplicaOf(i, Len(we.states), we.replicas)],
                      we.states[i])

\* C24: the list train-mode compute_gradients returns has one entry per
\* parameter in enumeration order, None where the parameter has no gradient,
\* and apply_gradients on a receiver places the sender's gradient of
\* parameter k on the receiver's parameter k, for grads_to_cpu True and
\* False.
C24_GradientRoundTrip ==
    we.op = "round_trip" =>
        /\ Len(we.sent.items) = NParams
        /\ \A k \in Params : we.sent.items[k] = we.sender_grad[k]
        /\ ~we.raised
        /\ \A k \in Params :
              ~IsNone(we.sender_grad[k]) => we.receiver_grad[k] = we.sender_grad[k]

\* C25: a train-mode compute_gradients call zeroes the accumulated
\* gradients before the loss and the back-propagation, so after any earlier
\* calls the gradients of a call with nonzero loss are those of this call's
\* loss alone: the slot of a parameter holds what this back-propagation
\* produced for it (nothing, or zero, where it produced nothing), and the
\* returned list holds these slots.
C25_GradientsOfCurrentLossAlone ==
    [][(IsOp(last', "compute_gradients") /\ last'.mode = "train") =>
        /\ last'.nzero = 1
        /\ last'.nbackward = 1 =>
              /\ \A k \in Params :
                    IF IsNone(last'.bg[k]) THEN Cleared(grad'[k])
                    ELSE grad'[k] = last'.bg[k]
              /\ last'.ret.kind = "list"
              /\ \/ last'.ret.items = [k \in Params |-> grad'[k]]
                 \/ last'.ret.items =
                       SelectSeq([k \in Params |-> grad'[k]], LAMBDA x : ~IsNone(x))]_vars

C25_Witness ==
    /\ IsOp(last, "compute_gradients") /\ last.mode = "train"
    /\ last.had_grad /\ last.nbackward = 1 /\ nsteps > 0
    /\ \E k \in Params : IsNone(last.bg[k])
    /\ \A k \in Params : ~IsNone(last.bg[k]) => grad[k] = last.bg[k]

\* C26: compute_we, compute_loss and compute_gradients store nothing on the
\* estimator: its fields states, init_coords and loss keep the values None,
\* None and 0 of construction after any sequence of operations (get_loss
\* returns 0, get_init_state returns None), and a compute_loss call returns
\* what the call before it returned for the same arguments.
C26_NothingStoredOnEstimator ==
    /\ [](/\ fields = InitFields
          /\ IsNone(fields.states) /\ IsNone(fields.init_coords)
          /\ fields.loss.num = 0)
    /\ [](IsOp(last, "get_loss") => last.loss.num = 0)
    /\ [](IsOp(last, "get_init_state") => last.ret = NoneGrads)
    /\ [][(IsOp(last, "compute_loss") /\ IsOp(last', "compute_loss")
             /\ last'.args = last.args /\ last'.val = last.val)
          => last'.loss = last.loss /\ last'.values_dict = last.values_dict]_vars

C26_Witness ==
    /\ IsOp(last, "get_loss") /\ last.loss.num = 0
    /\ nsteps > 0 /\ nappends > 0
    /\ \E k \in Params : ~Cleared(grad[k])

\* C27: after clip_gradients the gradient norm of each single parameter is
\* at most T = 1.5*mean(history) + 2*std(history), because each parameter is
\* clipped against T on its own; a parameter whose own norm is at most T
\* keeps its gradient unscaled, whatever the total norm is.
C27_EachParameterClippedOnItsOwn ==
    [][(pc # <<>> /\ Head(pc) = "clip") =>
        LET T == (3 * QueueMean(gradnorm_queue)) \div 2
                    + 2 * QueueStd(gradnorm_queue)
        IN  \A k \in Params :
               /\ IsNone(grad[k]) => IsNone(grad'[k])
               /\ ~IsNone(grad[k]) =>
                     /\ ~IsNone(grad'[k]) /\ Abs(Get(grad'[k])) <= T
                     /\ Abs(Get(grad[k])) <= T => grad'[k] = grad[k]]_vars

C27_Witness ==
    /\ IsOp(last, "apply_gradients") /\ pc = <<"step">>
    /\ last.norm > last.T
    /\ \A k \in Params : grad[k] = Some(4000)

\* C28: in validation mode compute_gradients calls compute_loss with its
\* default val=False, so its diagnostics carry the loss under loss_1 and
\* loss_2 (never val_loss_1 / val_loss_2) together with avg_metric and
\* val_avg_metric = avg_metric; in train mode they carry loss_1, loss_2,
\* avg_metric and train_avg_metric = avg_metric.
C28_ValidationDiagnosticsUnprefixed ==
    (IsOp(last, "compute_gradients") /\ last.mode \in {"val", "train"}) =>
        LET extra == IF last.mode = "val" THEN "val_avg_metric"
                     ELSE "train_avg_metric"
        IN  /\ DOMAIN last.values_dict
                 = {"loss_1", "loss_2", "avg_metric", extra}
            /\ last.values_dict["loss_1"] = Some(last.loss)
            /\ last.values_dict["loss_2"] = NoneV
            /\ ~IsNone(last.values_dict["avg_metric"])
            /\ last.values_dict[extra] = last.values_dict["avg_metric"]

C28_Witness ==
    /\ IsOp(last, "compute_gradients") /\ last.mode = "val"
    /\ last.val = "True" /\ last.loss.num > 0
    /\ "val_avg_metric" \in DOMAIN last.values_dict
    /\ "loss_1" \in DOMAIN last.values_dict

\* C29: for every input with finite energies the weighted observable that
\* compute_we returns has the value of the avg_metric it returns, the
\* arithmetic mean of the metric values after the clamp at 1e7, and the
\* neff_threshold argument has no effect on either.
C29_WeightedObservableIsAvgMetric ==
    /\ [](we.op = "compute_we" =>
            /\ we.w_ensemble.den > 0 /\ we.avg_metric.den > 0
            /\ we.w_ensemble.num * we.avg_metric.den
                  = we.avg_metric.num * we.w_ensemble.den
            /\ we.avg_metric.num * Len(we.metric)
                  = SeqSum(Clamped(we.metric)) * we.avg_metric.den)
    /\ [][(/\ we.op = "compute_we" /\ we'.op = "compute_we"
           /\ we'.U = we.U /\ we'.metric = we.metric)
          => /\ we'.w_ensemble = we.w_ensemble
             /\ we'.avg_metric = we.avg_metric]_vars

C29_Witness ==
    /\ we.op = "compute_we" /\ we.neff_threshold = Some(3)
    /\ we.U = <<100000, 0>> /\ we.metric = <<1, OBS_CLAMP + 1>>
    /\ we.w_ensemble.num * 2 = (OBS_CLAMP + 1) * we.w_ensemble.den

====
